---- MODULE Spec2Model ----
(***************************************************************************)
(* A model of task_tracker.py: the task list kept in the session state and *)
(* mirrored to tasks.json, the filter and sort that derive the two task    *)
(* tables, and the script run that renders them and dispatches the user's  *)
(* clicks.                                                                 *)
(*                                                                         *)
(* Text is a sequence of one-character strings, a date is a record         *)
(* [year, month, day] compared as datetime.date compares, and a stored     *)
(* date is the text strftime produces (parsed back by strptime wherever    *)
(* the code parses it).                                                    *)
(***************************************************************************)
EXTENDS Integers, Sequences, FiniteSets, TLC

VARIABLES
    file,             \* tasks.json on disk
    loaded,           \* what load_tasks gave init_session_state
    tasks,            \* st.session_state.tasks
    now,              \* the wall clock, datetime.now()
    pc,               \* position of the session
    filter_priority,  \* st.session_state.filter_priority
    filter_date,      \* st.session_state.filter_date
    active_tasks,     \* main: the list handed to filter_tasks, after the call
    filtered,         \* main: the list filter_tasks returned
    filtered_active,  \* main: the list handed to the first display_task_table
    completed_tasks,  \* main: the list handed to the second display_task_table
    last_op,          \* the last operation that ran, with its arguments
    marked            \* id of the task the user last marked complete, 0 if none

vars == <<file, loaded, tasks, now, pc, filter_priority, filter_date,
          active_tasks, filtered, filtered_active, completed_tasks, last_op, marked>>

----------------------------------------------------------------------------
(* Bounds of the model *)

MaxTasks == 3
MaxAppTasks == 2
MaxQueryLen == 2

----------------------------------------------------------------------------
(* Sequences *)

Range(s) == {s[i] : i \in 1..Len(s)}

SeqsUpTo(S, n) == UNION {[1..k -> S] : k \in 0..n}

Count(s, x) == Cardinality({i \in 1..Len(s) : s[i] = x})

\* list.remove(x): drops the first element equal to x
RECURSIVE remove(_, _)
remove(s, x) ==
    IF s = <<>> THEN <<>>
    ELSE IF Head(s) = x THEN Tail(s)
    ELSE <<Head(s)>> \o remove(Tail(s), x)

----------------------------------------------------------------------------
(* Dates and their text *)

IsLeap(y) == (y % 4 = 0 /\ y % 100 # 0) \/ y % 400 = 0

DaysInMonth(y, m) ==
    IF m = 2 THEN (IF IsLeap(y) THEN 29 ELSE 28)
    ELSE IF m \in {4, 6, 9, 11} THEN 30 ELSE 31

NextDay(d) ==
    IF d.day < DaysInMonth(d.year, d.month)
        THEN [d EXCEPT !.day = d.day + 1]
    ELSE IF d.month < 12
        THEN [year |-> d.year, month |-> d.month + 1, day |-> 1]
    ELSE [year |-> d.year + 1, month |-> 1, day |-> 1]

PrevDay(d) ==
    IF d.day > 1
        THEN [d EXCEPT !.day = d.day - 1]
    ELSE IF d.month > 1
        THEN [year |-> d.year, month |-> d.month - 1,
              day |-> DaysInMonth(d.year, d.month - 1)]
    ELSE [year |-> d.year - 1, month |-> 12, day |-> 31]

\* date + timedelta(days=n)
RECURSIVE AddDays(_, _)
AddDays(d, n) ==
    IF n = 0 THEN d
    ELSE IF n > 0 THEN AddDays(NextDay(d), n - 1)
    ELSE AddDays(PrevDay(d), n + 1)

\* date.__lt__ and date.__le__
DateLT(a, b) ==
    \/ a.year < b.year
    \/ a.year = b.year /\ a.month < b.month
    \/ a.year = b.year /\ a.month = b.month /\ a.day < b.day

DateLE(a, b) == a = b \/ DateLT(a, b)

DigitChars == <<"0", "1", "2", "3", "4", "5", "6", "7", "8", "9">>

DigitVal(c) == (CHOOSE i \in 1..10 : DigitChars[i] = c) - 1

Pad2(n) == <<DigitChars[(n \div 10) + 1], DigitChars[(n % 10) + 1]>>

Pad4(n) == Pad2(n \div 100) \o Pad2(n % 100)

\* date.strftime('%Y-%m-%d')
strftime(d) == Pad4(d.year) \o <<"-">> \o Pad2(d.month) \o <<"-">> \o Pad2(d.day)

\* datetime.strptime(s, '%Y-%m-%d').date()
strptime(s) ==
    [year  |-> DigitVal(s[1]) * 1000 + DigitVal(s[2]) * 100
                 + DigitVal(s[3]) * 10 + DigitVal(s[4]),
     month |-> DigitVal(s[6]) * 10 + DigitVal(s[7]),
     day   |-> DigitVal(s[9]) * 10 + DigitVal(s[10])]

\* datetime.now().strftime('%Y-%m-%d %H:%M:%S')
strftime_datetime(t) ==
    strftime(t.date) \o <<" ">> \o Pad2(t.hour) \o <<":">> \o Pad2(t.minute)
        \o <<":">> \o Pad2(t.second)

\* datetime.now().date()
Today == now.date

----------------------------------------------------------------------------
(* Tasks *)

Priorities == {"High", "Medium", "Low"}

PriorityOptions == {"All", "High", "Medium", "Low"}

DateOptions == {"All", "Today", "This Week", "Overdue"}

\* add_task: the dict it builds
NewTask(id, name, due_date, priority, clock) ==
    [id         |-> id,
     name       |-> name,
     due_date   |-> strftime(due_date),
     priority   |-> priority,
     completed  |-> FALSE,
     created_at |-> strftime_datetime(clock)]

----------------------------------------------------------------------------
(* filter_tasks *)

\* tasks.copy(): a new list object holding the same items
list_copy(s) == [tasks |-> s, filtered |-> s, alias |-> FALSE]

\* [t for t in filtered if t['priority'] == priority_filter]: a new list object
by_priority(fr, priority_filter) ==
    IF priority_filter # "All"
        THEN [fr EXCEPT
                 !.filtered = SelectSeq(fr.filtered,
                                  LAMBDA t : t.priority = priority_filter),
                 !.alias = FALSE]
        ELSE fr

\* the date conditions with the week ending a day early
date_rejects_short_week(task, date_filter, today) ==
    LET task_date == strptime(task.due_date)
        week_end  == AddDays(today, 7)
    IN  IF date_filter = "Today" /\ task_date # today THEN TRUE
        ELSE IF date_filter = "This Week"
            THEN DateLT(task_date, today) \/ DateLE(week_end, task_date)
        ELSE IF date_filter = "Overdue" /\ ~DateLT(task_date, today) THEN TRUE
        ELSE FALSE

\* the conditions under which the date loop removes a task
date_rejects(task, date_filter, today) ==
    LET task_date == strptime(task.due_date)
        week_end  == AddDays(today, 7)
    IN  IF date_filter = "Today" /\ task_date # today THEN TRUE
        ELSE IF date_filter = "This Week"
            THEN DateLT(task_date, today) \/ DateLT(week_end, task_date)
        ELSE IF date_filter = "Overdue" /\ ~DateLT(task_date, today) THEN TRUE
        ELSE FALSE

\* filtered.remove(task), seen through every name bound to the list object
frame_remove(fr, task) ==
    LET r == remove(fr.filtered, task)
    IN  [fr EXCEPT !.filtered = r,
                   !.tasks = IF fr.alias THEN r ELSE fr.tasks]

\* for task in filtered[:]: ... over the snapshot taken before the loop
RECURSIVE date_loop(_, _, _, _)
date_loop(snapshot, fr, date_filter, today) ==
    IF snapshot = <<>> THEN fr
    ELSE date_loop(Tail(snapshot),
                   IF date_rejects(Head(snapshot), date_filter, today)
                       THEN frame_remove(fr, Head(snapshot))
                       ELSE fr,
                   date_filter, today)

\* filter_tasks from the date filter on
by_date(fr, date_filter, today) ==
    IF date_filter # "All"
        THEN date_loop(fr.filtered, fr, date_filter, today)
        ELSE fr

\* filter_tasks: its return value (.filtered) and its argument after the call (.tasks)
filter_tasks(ts, priority_filter, date_filter, today) ==
    by_date(by_priority(list_copy(ts), priority_filter), date_filter, today)

----------------------------------------------------------------------------
(* The two sorts of main *)

PriorityRank(p) == IF p = "High" THEN 0 ELSE IF p = "Medium" THEN 1 ELSE 2

\* the key of the active sort compares strictly less
active_key_lt(a, b) ==
    LET da == strptime(a.due_date)
        db == strptime(b.due_date)
    IN  DateLT(da, db) \/ (da = db /\ PriorityRank(a.priority) < PriorityRank(b.priority))

\* the completed sort without reverse=True
completed_key_gt(a, b) == DateLT(strptime(b.due_date), strptime(a.due_date))

\* the key of the completed sort compares strictly less
completed_key_lt(a, b) == DateLT(strptime(a.due_date), strptime(b.due_date))

\* list.sort(key=...) is stable: x goes after every element whose key is not greater
RECURSIVE insert_active(_, _)
insert_active(s, x) ==
    IF s = <<>> THEN <<x>>
    ELSE IF active_key_lt(x, Head(s)) THEN <<x>> \o s
    ELSE <<Head(s)>> \o insert_active(Tail(s), x)

RECURSIVE sort_active(_)
sort_active(s) ==
    IF s = <<>> THEN <<>>
    ELSE insert_active(sort_active(SubSeq(s, 1, Len(s) - 1)), s[Len(s)])

\* list.sort(key=..., reverse=True) is stable too: x goes after every element
\* whose key is not smaller
RECURSIVE insert_completed(_, _)
insert_completed(s, x) ==
    IF s = <<>> THEN <<x>>
    ELSE IF completed_key_lt(Head(s), x) THEN <<x>> \o s
    ELSE <<Head(s)>> \o insert_completed(Tail(s), x)

RECURSIVE sort_completed(_)
sort_completed(s) ==
    IF s = <<>> THEN <<>>
    ELSE insert_completed(sort_completed(SubSeq(s, 1, Len(s) - 1)), s[Len(s)])

\* main: active_tasks = [t for t in st.session_state.tasks if not t['completed']]
ActiveOf(ts) == SelectSeq(ts, LAMBDA t : ~t.completed)

\* main: completed_count, and completed_tasks when the expander is built
CompletedOf(ts) == SelectSeq(ts, LAMBDA t : t.completed)

\* main, lines 193-211: the lists it derives from the session state
Lists(fr, ts) ==
    [active_tasks    |-> fr.tasks,
     filtered        |-> fr.filtered,
     filtered_active |-> sort_active(fr.filtered),
     completed_tasks |-> IF Len(CompletedOf(ts)) > 0
                             THEN sort_completed(CompletedOf(ts))
                             ELSE <<>>]

DerivedLists(ts, priority_filter, date_filter, today) ==
    Lists(filter_tasks(ActiveOf(ts), priority_filter, date_filter, today), ts)

----------------------------------------------------------------------------
(* The derived lists as functions of their inputs: every task list of at    *)
(* most MaxQueryLen tasks, every pair of filter options                     *)

NameA == <<"a">>

QueryClock ==
    [date |-> [year |-> 2024, month |-> 2, day |-> 25],
     hour |-> 9, minute |-> 30, second |-> 0]

QueryOffsets == {-1, 0, 7, 8}

\* Tasks sharing one id are what the store holds after deletions (the new id is
\* the list length plus one), equal dicts included.
QueryTasks ==
    {[NewTask(MaxQueryLen, NameA, AddDays(QueryClock.date, k), p, QueryClock)
          EXCEPT !.completed = c] :
        k \in QueryOffsets, p \in Priorities, c \in BOOLEAN}

\* last_op when no call has been made: no arguments to record
NoOp ==
    [op |-> "none", id |-> 0, found |-> FALSE, name |-> <<>>,
     due_date |-> QueryClock.date, priority |-> "High"]

QueryInit ==
    /\ tasks \in SeqsUpTo(QueryTasks, MaxQueryLen)
    /\ filter_priority \in PriorityOptions
    /\ filter_date \in DateOptions
    /\ now = QueryClock
    /\ pc = "query"
    /\ file = [kind |-> "absent", text |-> <<>>]
    /\ loaded = "list"
    /\ active_tasks = <<>>
    /\ filtered = <<>>
    /\ filtered_active = <<>>
    /\ completed_tasks = <<>>
    /\ last_op = NoOp
    /\ marked = 0

SetLists(d) ==
    /\ active_tasks' = d.active_tasks
    /\ filtered' = d.filtered
    /\ filtered_active' = d.filtered_active
    /\ completed_tasks' = d.completed_tasks

QueryLists ==
    /\ pc = "query"
    /\ SetLists(DerivedLists(tasks, filter_priority, filter_date, Today))
    /\ pc' = "listed"
    /\ UNCHANGED <<file, loaded, tasks, now, filter_priority, filter_date,
                   last_op, marked>>

QueryNext == QueryLists

QuerySpec == QueryInit /\ [][QueryNext]_vars

----------------------------------------------------------------------------
(* What the filters and the sorts are to compute, stated apart from the code *)

IsPermutation(a, b) ==
    /\ Len(a) = Len(b)
    /\ \A x \in Range(a) \cup Range(b) : Count(a, x) = Count(b, x)

DueDate(t) == strptime(t.due_date)

MatchesPriority(t, priority_filter) ==
    priority_filter = "All" \/ t.priority = priority_filter

MatchesDate(t, date_filter, today) ==
    CASE date_filter = "All"       -> TRUE
      [] date_filter = "Today"     -> DueDate(t) = today
      [] date_filter = "This Week" -> /\ DateLE(today, DueDate(t))
                                      /\ DateLE(DueDate(t), AddDays(today, 7))
      [] date_filter = "Overdue"   -> DateLT(DueDate(t), today)

Matching(ts, priority_filter, date_filter, today) ==
    SelectSeq(ts, LAMBDA t : /\ MatchesPriority(t, priority_filter)
                             /\ MatchesDate(t, date_filter, today))

\* C8: filter_tasks returns exactly the tasks of its argument that satisfy the
\* priority filter and the date filter, in their original order and with their
\* original multiplicity, and leaves its argument as it was.
C8_FilterReturnsTheMatchingTasks ==
    pc = "listed" =>
        /\ filtered = Matching(ActiveOf(tasks), filter_priority, filter_date, Today)
        /\ active_tasks = ActiveOf(tasks)

\* C8 witness: two equal tasks due in eight days were both removed by "This Week"
C8_Witness ==
    /\ pc = "listed"
    /\ filter_date = "This Week"
    /\ Len(active_tasks) = 2
    /\ active_tasks[1] = active_tasks[2]
    /\ DueDate(active_tasks[1]) = AddDays(Today, 8)
    /\ filtered = <<>>

----------------------------------------------------------------------------
(* tasks.json *)

\* What the file can hold: nothing (no file), bytes that do not decode as text,
\* text that is not JSON, JSON that is not a list of task records, or the text
\* json.dump writes for a list of tasks.
AbsentFile      == [kind |-> "absent",      text |-> <<>>]
UndecodableFile == [kind |-> "undecodable", text |-> <<>>]
GarbageFile     == [kind |-> "garbage",     text |-> <<>>]
NonTasksFile    == [kind |-> "nontasks",    text |-> <<>>]

\* json.dump of one task dict: its values in key order, the boolean as a JSON literal
json_dump_task(t) ==
    <<t.id, t.name, t.due_date, t.priority,
      IF t.completed THEN "true" ELSE "false", t.created_at>>

\* json.load of one task object
json_load_task(o) ==
    [id         |-> o[1],
     name       |-> o[2],
     due_date   |-> o[3],
     priority   |-> o[4],
     completed  |-> (o[5] = "true"),
     created_at |-> o[6]]

\* save_tasks: the file after json.dump(st.session_state.tasks, f, indent=2)
save_tasks(ts) ==
    [kind |-> "tasks", text |-> [i \in 1..Len(ts) |-> json_dump_task(ts[i])]]

\* load_tasks: how the call ends and the list it returns
load_tasks(f) ==
    IF f.kind = "absent" THEN [outcome |-> "list", tasks |-> <<>>]
    ELSE IF f.kind = "undecodable" THEN [outcome |-> "raise", tasks |-> <<>>]
    ELSE IF f.kind = "garbage" THEN [outcome |-> "list", tasks |-> <<>>]
    ELSE IF f.kind = "nontasks" THEN [outcome |-> "value", tasks |-> <<>>]
    ELSE [outcome |-> "list",
          tasks   |-> [i \in 1..Len(f.text) |-> json_load_task(f.text[i])]]

----------------------------------------------------------------------------
(* The task store: the list in the session state and its file *)

Store == [tasks |-> tasks, file |-> file]

HasId(ts, task_id) == \E i \in 1..Len(ts) : ts[i].id = task_id

add_task(st, name, due_date, priority, clock) ==
    LET ts == Append(st.tasks,
                  NewTask(Len(st.tasks) + 1, name, due_date, priority, clock))
    IN  [tasks |-> ts, file |-> save_tasks(ts)]

\* a toggle that marks the task completed instead of flipping the flag
toggle_marks_completed(st, task_id) ==
    IF HasId(st.tasks, task_id)
        THEN LET i  == CHOOSE k \in 1..Len(st.tasks) :
                           /\ st.tasks[k].id = task_id
                           /\ \A j \in 1..(k - 1) : st.tasks[j].id # task_id
                 ts == [st.tasks EXCEPT ![i].completed = TRUE]
             IN  [tasks |-> ts, file |-> save_tasks(ts)]
        ELSE st

\* the loop stops at the first task with the id, and saves only when it found one
toggle_task_completion(st, task_id) ==
    IF HasId(st.tasks, task_id)
        THEN LET i  == CHOOSE k \in 1..Len(st.tasks) :
                           /\ st.tasks[k].id = task_id
                           /\ \A j \in 1..(k - 1) : st.tasks[j].id # task_id
                 ts == [st.tasks EXCEPT ![i].completed = ~st.tasks[i].completed]
             IN  [tasks |-> ts, file |-> save_tasks(ts)]
        ELSE st

\* a delete that forgets to save
delete_task_unsaved(st, task_id) ==
    [tasks |-> SelectSeq(st.tasks, LAMBDA t : t.id # task_id), file |-> st.file]

delete_task(st, task_id) ==
    LET ts == SelectSeq(st.tasks, LAMBDA t : t.id # task_id)
    IN  [tasks |-> ts, file |-> save_tasks(ts)]

StoreClock ==
    [date |-> [year |-> 2024, month |-> 12, day |-> 31],
     hour |-> 23, minute |-> 59, second |-> 58]

StoreNames == {NameA}

StoreDates == {StoreClock.date, AddDays(StoreClock.date, 1)}

StorePriorities == {"High", "Low"}

\* ids a caller may pass: every id a task can have, and one no task has
CallIds == 1..(MaxTasks + 1)

StoreFiles ==
    {AbsentFile, UndecodableFile, GarbageFile, NonTasksFile, save_tasks(<<>>),
     save_tasks(<<NewTask(1, NameA, StoreClock.date, "High", StoreClock)>>)}

StoreInit ==
    /\ file \in StoreFiles
    /\ loaded = "unset"
    /\ tasks = <<>>
    /\ now = StoreClock
    /\ pc = "start"
    /\ filter_priority = "All"
    /\ filter_date = "All"
    /\ active_tasks = <<>>
    /\ filtered = <<>>
    /\ filtered_active = <<>>
    /\ completed_tasks = <<>>
    /\ last_op = NoOp
    /\ marked = 0

\* init_session_state: a load that raises or returns something that is no list
\* of tasks ends the session (the script fails on it)
InitSessionState ==
    /\ pc = "start"
    /\ LET r == load_tasks(file)
       IN  /\ loaded' = r.outcome
           /\ tasks' = r.tasks
           /\ pc' = IF r.outcome = "list" THEN "ready" ELSE "failed"
    /\ last_op' = [NoOp EXCEPT !.op = "init"]
    /\ UNCHANGED <<file, now, filter_priority, filter_date, active_tasks,
                   filtered, filtered_active, completed_tasks, marked>>

AddTask(name, due_date, priority) ==
    /\ pc = "ready"
    /\ Len(tasks) < MaxTasks
    /\ LET st == add_task(Store, name, due_date, priority, now)
       IN  /\ tasks' = st.tasks
           /\ file' = st.file
    /\ last_op' = [op |-> "add", id |-> Len(tasks) + 1, found |-> FALSE,
                   name |-> name, due_date |-> due_date, priority |-> priority]
    /\ UNCHANGED <<loaded, now, pc, filter_priority, filter_date, active_tasks,
                   filtered, filtered_active, completed_tasks, marked>>

ToggleTaskCompletion(task_id) ==
    /\ pc = "ready"
    /\ LET st == toggle_task_completion(Store, task_id)
       IN  /\ tasks' = st.tasks
           /\ file' = st.file
    /\ last_op' = [NoOp EXCEPT !.op = "toggle", !.id = task_id,
                               !.found = HasId(tasks, task_id)]
    /\ UNCHANGED <<loaded, now, pc, filter_priority, filter_date, active_tasks,
                   filtered, filtered_active, completed_tasks, marked>>

DeleteTask(task_id) ==
    /\ pc = "ready"
    /\ LET st == delete_task(Store, task_id)
       IN  /\ tasks' = st.tasks
           /\ file' = st.file
    /\ last_op' = [NoOp EXCEPT !.op = "delete", !.id = task_id,
                               !.found = HasId(tasks, task_id)]
    /\ UNCHANGED <<loaded, now, pc, filter_priority, filter_date, active_tasks,
                   filtered, filtered_active, completed_tasks, marked>>

StoreNext ==
    \/ InitSessionState
    \/ \E name \in StoreNames, due_date \in StoreDates, priority \in StorePriorities :
           AddTask(name, due_date, priority)
    \/ \E task_id \in CallIds : ToggleTaskCompletion(task_id)
    \/ \E task_id \in CallIds : DeleteTask(task_id)

StoreSpec == StoreInit /\ [][StoreNext]_vars

----------------------------------------------------------------------------
(* The store's contract *)

Calls == {"add", "toggle", "delete"}

\* the file holds exactly the list ts: same tasks, same order, same field values
FileHolds(f, ts) ==
    /\ f.kind = "tasks"
    /\ Len(f.text) = Len(ts)
    /\ \A i \in 1..Len(ts) : json_load_task(f.text[i]) = ts[i]

\* ts without its k-th element
Without(ts, k) == SubSeq(ts, 1, k - 1) \o SubSeq(ts, k + 1, Len(ts))

\* C1: no two tasks of the store have the same id.
C1_IdsAreUnique ==
    \A i, j \in 1..Len(tasks) : i # j => tasks[i].id # tasks[j].id

\* C2: delete(id) for an id in the store removes exactly one task and leaves
\* every other task in place, in content and order.
C2_DeleteRemovesExactlyOne ==
    pc = "ready" =>
        \A task_id \in CallIds :
            HasId(tasks, task_id) =>
                LET after == delete_task(Store, task_id).tasks
                IN  /\ Len(after) = Len(tasks) - 1
                    /\ \E k \in 1..Len(tasks) :
                           tasks[k].id = task_id /\ after = Without(tasks, k)

\* C3: toggleCompletion applied twice to the same id restores the completed
\* value of every task, and applied once changes nothing but the completed
\* flag of a task with that id.
C3_ToggleIsItsOwnInverse ==
    pc = "ready" =>
        \A task_id \in CallIds :
            LET once  == toggle_task_completion(Store, task_id)
                twice == toggle_task_completion(once, task_id)
            IN  /\ twice.tasks = tasks
                /\ Len(once.tasks) = Len(tasks)
                /\ \A i \in 1..Len(tasks) :
                       once.tasks[i] # tasks[i] =>
                           /\ tasks[i].id = task_id
                           /\ once.tasks[i] =
                                  [tasks[i] EXCEPT !.completed = ~tasks[i].completed]
                /\ HasId(tasks, task_id) => once.tasks # tasks

\* C3 witness: a toggle has run on an id two tasks share, and flipped the first only
C3_Witness ==
    /\ last_op.op = "toggle"
    /\ last_op.found
    /\ \E i, j \in 1..Len(tasks) :
           /\ i < j
           /\ tasks[i].id = last_op.id
           /\ tasks[j].id = last_op.id
           /\ tasks[i].completed
           /\ ~tasks[j].completed

\* C4 as stated: after any add, toggleCompletion or delete call the file holds
\* exactly the in-memory list.
C4_FileHoldsListAfterEveryCall ==
    last_op.op \in Calls => FileHolds(file, tasks)

\* C4 as amended: after an add, a delete, or a toggleCompletion whose id is in
\* the store, the file holds exactly the in-memory list; a toggleCompletion
\* with an id not in the store leaves the file as it was; after any of the
\* three calls a load from a fresh store returns the in-memory list, and a
\* task just added comes back with the name, due date and priority given and
\* completed = false.
C4_FileHoldsListAfterEveryWrite ==
    /\ (last_op.op \in {"add", "delete"} \/ (last_op.op = "toggle" /\ last_op.found))
           => FileHolds(file, tasks)
    /\ pc = "ready" =>
           \A task_id \in CallIds :
               ~HasId(tasks, task_id) =>
                   toggle_task_completion(Store, task_id).file = file
    /\ last_op.op \in Calls =>
           load_tasks(file) = [outcome |-> "list", tasks |-> tasks]
    /\ last_op.op = "add" =>
           LET back == load_tasks(file).tasks
           IN  /\ Len(back) = Len(tasks)
               /\ Len(back) > 0
               /\ back[Len(back)].name = last_op.name
               /\ strptime(back[Len(back)].due_date) = last_op.due_date
               /\ back[Len(back)].priority = last_op.priority
               /\ back[Len(back)].completed = FALSE

\* C4 witness: a delete has just rewritten the file with the two tasks left,
\* one of them completed
C4_Witness ==
    /\ last_op.op = "delete"
    /\ last_op.found
    /\ Len(tasks) = 2
    /\ \E i \in 1..2 : tasks[i].completed
    /\ FileHolds(file, tasks)

\* C5: load returns an empty list, raising nothing, whenever the file is
\* absent or does not hold a well-formed task list, and the stored list when
\* it does.
C5_LoadYieldsStoredListOrEmpty ==
    LET r == load_tasks(file)
    IN  /\ r.outcome = "list"
        /\ file.kind # "tasks" => r.tasks = <<>>
        /\ file.kind = "tasks" => FileHolds(file, r.tasks)

\* C7: toggleCompletion and delete with an id no task has change neither the
\* in-memory list nor the content of the file.
C7_UnknownIdIsNoOp ==
    pc = "ready" =>
        \A task_id \in CallIds :
            ~HasId(tasks, task_id) =>
                /\ toggle_task_completion(Store, task_id) = Store
                /\ delete_task(Store, task_id) = Store

----------------------------------------------------------------------------
(* The script: one run of main per user event or st.rerun() *)

IsSpace(c) == c = " "

\* str.strip(): drops the whitespace at both ends
RECURSIVE lstrip(_)
lstrip(s) == IF s # <<>> /\ IsSpace(Head(s)) THEN lstrip(Tail(s)) ELSE s

RECURSIVE rstrip(_)
rstrip(s) ==
    IF s # <<>> /\ IsSpace(s[Len(s)]) THEN rstrip(SubSeq(s, 1, Len(s) - 1)) ELSE s

\* a strip that strips nothing
strip_nothing(s) == s

strip(s) == rstrip(lstrip(s))

\* The event that starts a run: none (the first run, or st.rerun()), the Add Task
\* button, a row's checkbox, a row's delete button, or a filter selectbox.
NoEvent == [kind |-> "none", id |-> 0, name |-> <<>>,
            due_date |-> QueryClock.date, priority |-> "High"]

\* st.checkbox(value=task['completed'], key=check_<id>): the box's state, which is
\* its value argument unless the user has just clicked it. (A box drawn with
\* another value than in the run before is a new widget, at its value.)
checkbox(task, ev) ==
    IF ev.kind = "check" /\ ev.id = task.id THEN ~task.completed ELSE task.completed

\* st.button(key=del_<id>): true in the run its click started
button(task, ev) == ev.kind = "delete" /\ ev.id = task.id

\* display_task_table: the rows in order, up to the first st.rerun(). A second
\* widget with a key already used in the run makes streamlit raise, which ends
\* the run with the error on the page.
\* one row of display_task_table, its keys new in the run: the checkbox, then the
\* delete button; "next" when neither fires
display_row(task, st, ev) ==
    IF checkbox(task, ev)
        THEN [store |-> toggle_task_completion(st, task.id), outcome |-> "rerun",
              toggled |-> task.id, deleted |-> 0]
    ELSE IF button(task, ev)
        THEN [store |-> delete_task(st, task.id), outcome |-> "rerun",
              toggled |-> 0, deleted |-> task.id]
    ELSE [store |-> st, outcome |-> "next", toggled |-> 0, deleted |-> 0]

RECURSIVE display_task_table(_, _, _, _)

\* after a row: on to the next row, or the run ends in st.rerun()
after_row(r, rows, used, ev) ==
    IF r.outcome = "next"
        THEN display_task_table(Tail(rows), used \cup {Head(rows).id}, r.store, ev)
        ELSE [store |-> r.store, outcome |-> "rerun", used |-> used,
              toggled |-> r.toggled, deleted |-> r.deleted]

\* display_task_table: the rows in order, up to the first st.rerun(). A second
\* widget with a key already used in the run makes streamlit raise, which ends
\* the run with the error on the page.
display_task_table(rows, used, st, ev) ==
    IF rows = <<>>
        THEN [store |-> st, outcome |-> "done", used |-> used,
              toggled |-> 0, deleted |-> 0]
    ELSE IF Head(rows).id \in used
        THEN [store |-> st, outcome |-> "error", used |-> used,
              toggled |-> 0, deleted |-> 0]
    ELSE after_row(display_row(Head(rows), st, ev), rows, used, ev)

\* the rows of a table whose widgets a finished run has put on the page
RECURSIVE Rendered(_, _)
Rendered(rows, used) ==
    IF rows = <<>> \/ Head(rows).id \in used THEN <<>>
    ELSE <<Head(rows)>> \o Rendered(Tail(rows), used \cup {Head(rows).id})

\* main, lines 206-211: the completed table, built when a task is completed
completed_section(first, d, st, ev) ==
    IF first.outcome = "done" /\ Len(CompletedOf(st.tasks)) > 0
        THEN display_task_table(d.completed_tasks, first.used, st, ev)
        ELSE first

\* where a run that reached the tables ends
tables_result(first, second, d) ==
    [store   |-> second.store,
     outcome |-> IF second.outcome = "rerun" THEN "rerun" ELSE "idle",
     listed  |-> TRUE,
     lists   |-> IF first.outcome = "done"
                     THEN d ELSE [d EXCEPT !.completed_tasks = <<>>],
     toggled |-> second.toggled,
     deleted |-> second.deleted]

\* main, lines 191-211: the active table, then the completed one
after_active(first, d, st, ev) ==
    tables_result(first, completed_section(first, d, st, ev), d)

tables(d, st, ev) ==
    after_active(display_task_table(d.filtered_active, {}, st, ev), d, st, ev)

\* main, from the Add Task button to the end: what a run that starts in store st
\* with the filter selections given does, and where it ends
main(st, priority_filter, date_filter, clock, ev) ==
    IF ev.kind = "add" /\ strip(ev.name) # <<>>
        THEN [store   |-> add_task(st, strip(ev.name), ev.due_date, ev.priority, clock),
              outcome |-> "rerun",
              listed  |-> FALSE,
              lists   |-> [active_tasks |-> <<>>, filtered |-> <<>>,
                           filtered_active |-> <<>>, completed_tasks |-> <<>>],
              toggled |-> 0,
              deleted |-> 0]
        ELSE tables(DerivedLists(st.tasks, priority_filter, date_filter, clock.date),
                    st, ev)

\* the state a run leaves behind
Finish(r, priority_filter, date_filter, ev) ==
    /\ tasks' = r.store.tasks
    /\ file' = r.store.file
    /\ pc' = r.outcome
    /\ filter_priority' = IF r.listed THEN priority_filter ELSE filter_priority
    /\ filter_date' = IF r.listed THEN date_filter ELSE filter_date
    /\ active_tasks' = IF r.listed THEN r.lists.active_tasks ELSE active_tasks
    /\ filtered' = IF r.listed THEN r.lists.filtered ELSE filtered
    /\ filtered_active' = IF r.listed THEN r.lists.filtered_active ELSE filtered_active
    /\ completed_tasks' = IF r.listed THEN r.lists.completed_tasks ELSE completed_tasks
    /\ last_op' = [NoOp EXCEPT !.op = ev.kind, !.id = r.toggled,
                               !.found = r.toggled # 0, !.name = ev.name]
    /\ marked' = IF ev.kind = "check" /\ r.toggled = ev.id THEN ev.id
                 ELSE IF r.deleted # 0 /\ r.deleted = marked THEN 0
                 ELSE marked

\* a run of the script, from event ev with the selectboxes at the values given
Run(priority_filter, date_filter, ev) ==
    Finish(main(Store, priority_filter, date_filter, now, ev),
           priority_filter, date_filter, ev)

AppClock ==
    [date |-> [year |-> 2024, month |-> 2, day |-> 29],
     hour |-> 9, minute |-> 30, second |-> 0]

\* what the user may type in the name field: nothing, blanks, a name, a name
\* with blanks around it
AppNames == {<<>>, <<" ", " ">>, <<"a">>, <<" ", "a", " ">>}

AppDates == {AddDays(AppClock.date, -1), AppClock.date}

AppPriorities == {"High", "Low"}

AppIds == 1..MaxAppTasks

AppFiles ==
    {AbsentFile, UndecodableFile, GarbageFile, NonTasksFile, save_tasks(<<>>),
     save_tasks(<<NewTask(1, NameA, AppClock.date, "High", AppClock)>>)}

AppInit ==
    /\ file \in AppFiles
    /\ loaded = "unset"
    /\ tasks = <<>>
    /\ now = AppClock
    /\ pc = "start"
    /\ filter_priority = "All"
    /\ filter_date = "All"
    /\ active_tasks = <<>>
    /\ filtered = <<>>
    /\ filtered_active = <<>>
    /\ completed_tasks = <<>>
    /\ last_op = NoOp
    /\ marked = 0

\* the first run: init_session_state loads the list, then main goes on; a load
\* that raises or returns something that is no list of tasks fails the script
Start ==
    /\ pc = "start"
    /\ loaded' = load_tasks(file).outcome
    /\ IF load_tasks(file).outcome = "list"
           THEN Finish(main([tasks |-> load_tasks(file).tasks, file |-> file],
                            "All", "All", now, [NoEvent EXCEPT !.kind = "init"]),
                       "All", "All", [NoEvent EXCEPT !.kind = "init"])
           ELSE /\ pc' = "failed"
                /\ last_op' = [NoOp EXCEPT !.op = "init"]
                /\ UNCHANGED <<tasks, file, filter_priority, filter_date, active_tasks,
                               filtered, filtered_active, completed_tasks, marked>>
    /\ UNCHANGED now

\* st.rerun(): the script runs again with no new event
Rerun ==
    /\ pc = "rerun"
    /\ Run(filter_priority, filter_date, NoEvent)
    /\ UNCHANGED <<loaded, now>>

\* the user presses Add Task with the form filled in
ClickAddTask(task_name, due_date, priority) ==
    /\ pc = "idle"
    /\ Len(tasks) < MaxAppTasks \/ strip(task_name) = <<>>
    /\ Run(filter_priority, filter_date,
           [kind |-> "add", id |-> 0, name |-> task_name,
            due_date |-> due_date, priority |-> priority])
    /\ UNCHANGED <<loaded, now>>

\* the user clicks the checkbox of a row on the page
ClickCheckbox(task_id) ==
    /\ pc = "idle"
    /\ HasId(Rendered(filtered_active, {}), task_id)
    /\ Run(filter_priority, filter_date, [NoEvent EXCEPT !.kind = "check", !.id = task_id])
    /\ UNCHANGED <<loaded, now>>

\* the user clicks the delete button of a row on the page
ClickDelete(task_id) ==
    /\ pc = "idle"
    /\ HasId(Rendered(filtered_active, {}), task_id)
    /\ Run(filter_priority, filter_date, [NoEvent EXCEPT !.kind = "delete", !.id = task_id])
    /\ UNCHANGED <<loaded, now>>

\* the user picks another option in the priority selectbox
SelectPriority(option) ==
    /\ pc = "idle"
    /\ option # filter_priority
    /\ Run(option, filter_date, [NoEvent EXCEPT !.kind = "filter"])
    /\ UNCHANGED <<loaded, now>>

\* the user picks another option in the date selectbox
SelectDate(option) ==
    /\ pc = "idle"
    /\ option # filter_date
    /\ Run(filter_priority, option, [NoEvent EXCEPT !.kind = "filter"])
    /\ UNCHANGED <<loaded, now>>

AppNext ==
    \/ Start
    \/ Rerun
    \/ \E task_name \in AppNames, due_date \in AppDates, priority \in AppPriorities :
           ClickAddTask(task_name, due_date, priority)
    \/ \E task_id \in AppIds : ClickCheckbox(task_id)
    \/ \E task_id \in AppIds : ClickDelete(task_id)
    \/ \E option \in PriorityOptions : SelectPriority(option)
    \/ \E option \in DateOptions : SelectDate(option)

AppSpec == AppInit /\ [][AppNext]_vars

----------------------------------------------------------------------------
(* The script's contract *)

IsBlank(s) == \A i \in 1..Len(s) : s[i] = " "

\* C6: submitting the form with an empty or whitespace-only name changes neither
\* the in-memory list nor the file, and no task of the store has an empty name.
C6_BlankNameIsRejected ==
    [][/\ (last_op'.op = "add" /\ IsBlank(last_op'.name))
              => (tasks' = tasks /\ file' = file)
       /\ \A i \in 1..Len(tasks') : tasks'[i].name # <<>>]_vars

\* C6 witness: a whitespace-only submission has been rejected with tasks in the store
C6_Witness ==
    /\ pc = "idle"
    /\ last_op.op = "add"
    /\ last_op.name = <<" ", " ">>
    /\ Len(tasks) = 2
    /\ FileHolds(file, tasks)

\* C10: only a run started by a click on a task's checkbox invokes
\* toggleCompletion, and a task the user marked complete is completed once the
\* view has settled.
C10_OnlyTheUserToggles ==
    /\ last_op.found => last_op.op = "check"
    /\ (pc = "idle" /\ marked # 0) =>
           \E i \in 1..Len(tasks) : tasks[i].id = marked /\ tasks[i].completed

====
